---- MODULE Spec2Model ----
(***************************************************************************)
(* Model of the recommendation and metrics logic of the Dashboard          *)
(* component (components/Dashboard.tsx): the pure function                 *)
(* generateJobMatches and the metrics derived on each render of Dashboard. *)
(*                                                                         *)
(* Numbers are JavaScript doubles in the source.  Every quotient the code  *)
(* forms is a ratio of two small integers times 100, and Math.round is     *)
(* modelled exactly, as floor(x + 1/2) of that ratio.  The double result   *)
(* can differ from the exact one only where the ratio is exactly half-way  *)
(* between two integers (23 of 40 records give 57.49999999999999, rounded  *)
(* to 57, not 58); for attendance that needs a record count that is a      *)
(* multiple of 8, and for match scores the cap of 98 hides it.             *)
(***************************************************************************)
EXTENDS Integers, Sequences, FiniteSets, TLC

VARIABLES
    skills,             \* argument skills of generateJobMatches
    proficiencyLevels,  \* argument proficiencyLevels of generateJobMatches
    collected,          \* the local array matches when the loops end (line 94)
    matches,            \* the local array matches when the call ends (sorted in place)
    result,             \* the value returned by the last call
    outcome,            \* "idle" | "returned" | "TypeError"
    prevResult,         \* the value returned by the call before the last one
    prevOutcome,        \* the outcome of the call before the last one
    calls,              \* number of calls made with these arguments
    user,               \* Dashboard: useAuth().user, NoUser when signed out
    studentAttendance,  \* Dashboard: getStudentAttendance(user.id)
    performance,        \* Dashboard: getStudentPerformance(user.id)
    metrics,            \* Dashboard: the metrics prop
    view,               \* Dashboard: "none" | "null" | "dashboard" | "error"
    updatedMetrics,     \* Dashboard: the metrics shown by the last render
    skillProficiencyLevels, \* Dashboard: the levels drawn by the last render
    updatedJobMatches,  \* Dashboard: the job matches shown by the last render
    callerSkills,       \* callers: the skills array each caller holds
    callerLevels,       \* callers: the proficiencyLevels array each caller holds
    callerResult,       \* callers: what each caller's last call returned
    callerOutcome,      \* callers: how each caller's last call ended
    callerCalls,        \* callers: number of calls each caller has made
    soloResult,         \* callers: what a caller's call returns with no other call made
    soloOutcome,        \* callers: how a caller's call ends with no other call made
    loading,            \* AppContent: useAuth().loading
    userRole,           \* AppContent: useAuth().userRole, NoRole when signed out
    activeTab,          \* AppContent: useState('dashboard')
    selectedLanguage,   \* AppContent: useState('python')
    showUserMenu,       \* AppContent: useState(false)
    showAddModal,       \* AdminDashboard: useState(false)
    newUser,            \* AdminDashboard: useState({email, password, role})
    updateUsersCalls,   \* AdminDashboard: the calls of updateUsers made so far
    alertText,          \* AdminDashboard: the text of the last alert, "none" so far
    submits             \* AdminDashboard: number of runs of handleAddUser

callVars == <<skills, proficiencyLevels, collected, matches, result, outcome,
              prevResult, prevOutcome, calls>>

dashboardVars == <<user, studentAttendance, performance, metrics, view,
                   updatedMetrics, skillProficiencyLevels, updatedJobMatches>>

callerVars == <<callerSkills, callerLevels, callerResult, callerOutcome,
                callerCalls, soloResult, soloOutcome>>

appVars == <<loading, userRole, activeTab, selectedLanguage, showUserMenu>>

adminVars == <<showAddModal, newUser, updateUsersCalls, alertText, submits>>

vars == <<callVars, dashboardVars, callerVars, appVars, adminVars>>

----------------------------------------------------------------------------
(* Bounds of the model *)

\* longest skills / proficiencyLevels argument explored
MaxLen == 2
\* number of successive calls made with the same arguments
MaxCalls == 2
\* number of clicks on the add button of the modal explored
MaxSubmits == 2
\* longest sequence of attendance records explored
MaxRecords == 5

(* Inputs explored *)

\* the four catalog keys, a name that is no property of the catalog at all,
\* and a name the catalog object inherits from Object.prototype
SkillNames == {"Python", "JavaScript", "Java", "C++", "Rust", "constructor"}

\* proficiencies at every threshold of the catalog, below them all, between
\* two of them and above them all
Proficiencies == {0, 80, 82, 84, 85, 88, 90, 100}

SeqsUpTo(S, n) == UNION {[1..k -> S] : k \in 0..n}

SkillSeqs == SeqsUpTo(SkillNames, MaxLen)

LevelSeqs == SeqsUpTo(Proficiencies, MaxLen)

----------------------------------------------------------------------------
(* generateJobMatches *)

\* const jobRoles = { ... }
jobRoles ==
    ("Python" :> <<
        [role |-> "Data Scientist", company |-> "DataCorp Analytics", minScore |-> 85],
        [role |-> "Machine Learning Engineer", company |-> "AI Solutions Ltd", minScore |-> 90],
        [role |-> "Backend Developer", company |-> "TechStack Inc", minScore |-> 80] >>)
    @@ ("JavaScript" :> <<
        [role |-> "Frontend Developer", company |-> "WebTech Solutions", minScore |-> 80],
        [role |-> "Full Stack Developer", company |-> "Digital Innovations", minScore |-> 85],
        [role |-> "React Developer", company |-> "Modern Apps Inc", minScore |-> 82] >>)
    @@ ("Java" :> <<
        [role |-> "Software Engineer", company |-> "Enterprise Systems", minScore |-> 85],
        [role |-> "Android Developer", company |-> "Mobile Solutions", minScore |-> 88],
        [role |-> "Backend Developer", company |-> "Cloud Services Ltd", minScore |-> 82] >>)
    @@ ("C++" :> <<
        [role |-> "Systems Engineer", company |-> "Hardware Solutions", minScore |-> 88],
        [role |-> "Game Developer", company |-> "Gaming Studios", minScore |-> 85],
        [role |-> "Embedded Systems Developer", company |-> "IoT Technologies", minScore |-> 90] >>)

\* jobRoles is an object literal: besides its own four keys, jobRoles[name]
\* finds the properties of Object.prototype (constructor, toString, ...),
\* all of them truthy and none of them an array.
ObjectPrototypeKeys == {"constructor"}

\* jobRoles[skill] is truthy but has no forEach: line 82 throws a TypeError
roleOptionsNotArray(skill) ==
    skill \notin DOMAIN jobRoles /\ skill \in ObjectPrototypeKeys

\* const roleOptions = jobRoles[skill] || []   (when that is an array)
roleOptions(skill) ==
    IF skill \in DOMAIN jobRoles THEN jobRoles[skill] ELSE << >>

\* a gate that lets every defined proficiency through
Qualifies_NoGate(levels, index, option) ==
    index <= Len(levels)

\* a gate that refuses a proficiency equal to the threshold
Qualifies_Strict(levels, index, option) ==
    /\ index <= Len(levels)
    /\ levels[index] > option.minScore

\* const proficiency = proficiencyLevels[index]; if (proficiency >= option.minScore)
\* Past the end of proficiencyLevels the read gives undefined, and
\* undefined >= n is false.
Qualifies(levels, index, option) ==
    /\ index <= Len(levels)
    /\ levels[index] >= option.minScore

\* Math.round(num / den) for integers num >= 0, den > 0: floor(x + 1/2)
MathRound(num, den) == (2 * num + den) \div (2 * den)

\* the cap of Math.min(matchScore, 98)
ScoreCap == 98

Min(a, b) == IF a <= b THEN a ELSE b

\* the score left uncapped
CapScore_NoCap(matchScore) == matchScore

\* a cap of 100 in place of 98
CapScore_AtHundred(matchScore) == Min(matchScore, 100)

\* Math.min(matchScore, 98)
CapScore(matchScore) == Min(matchScore, ScoreCap)

\* a match that stores the proficiency itself as its score
MakeMatch_ProficiencyAsScore(skill, proficiency, option) ==
    [role           |-> option.role,
     company        |-> option.company,
     matchScore     |-> CapScore(proficiency),
     recommendation |-> <<skill, proficiency>>]

\* the object pushed at lines 85-90; the recommendation text is the fixed
\* template with skill and proficiency interpolated, kept as that pair
MakeMatch(skill, proficiency, option) ==
    [role           |-> option.role,
     company        |-> option.company,
     matchScore     |-> CapScore(MathRound(proficiency * 100, option.minScore)),
     recommendation |-> <<skill, proficiency>>]

\* roleOptions.forEach(option => { if (...) matches.push({...}) }) for one skill:
\* the matches pushed for skills[index], in catalog order
RECURSIVE PushOptions(_, _, _, _, _)
PushOptions(acc, skill, levels, index, options) ==
    IF options = << >> THEN acc
    ELSE PushOptions(
            IF Qualifies(levels, index, Head(options))
            THEN Append(acc, MakeMatch(skill, levels[index], Head(options)))
            ELSE acc,
            skill, levels, index, Tail(options))

\* skills.forEach((skill, index) => { ... }) from index on, stopping at the
\* first skill whose roleOptions is no array (the TypeError leaves the loop)
RECURSIVE ForEachSkill(_, _, _, _)
ForEachSkill(acc, sk, levels, index) ==
    IF index > Len(sk) \/ roleOptionsNotArray(sk[index]) THEN acc
    ELSE ForEachSkill(
            PushOptions(acc, sk[index], levels, index, roleOptions(sk[index])),
            sk, levels, index + 1)

\* whether the call throws: some skill has a non-array roleOptions
Throws(sk) == \E i \in 1..Len(sk) : roleOptionsNotArray(sk[i])

\* the comparator (a, b) => b.matchScore - a.matchScore
compareFn(a, b) == b.matchScore - a.matchScore

\* an unstable sort: x goes in front of the elements it ties with
RECURSIVE InsertSorted_BeforeTies(_, _)
InsertSorted_BeforeTies(sorted, x) ==
    IF sorted = << >> THEN <<x>>
    ELSE IF compareFn(Head(sorted), x) < 0
         THEN <<Head(sorted)>> \o InsertSorted_BeforeTies(Tail(sorted), x)
         ELSE <<x>> \o sorted

\* Array.prototype.sort is stable (ECMAScript 2019): x goes behind every
\* element the comparator does not order after it
RECURSIVE InsertSorted(_, _)
InsertSorted(sorted, x) ==
    IF sorted = << >> THEN <<x>>
    ELSE IF compareFn(Head(sorted), x) <= 0
         THEN <<Head(sorted)>> \o InsertSorted(Tail(sorted), x)
         ELSE <<x>> \o sorted

RECURSIVE SortFrom(_, _)
SortFrom(sorted, rest) ==
    IF rest = << >> THEN sorted
    ELSE SortFrom(InsertSorted(sorted, Head(rest)), Tail(rest))

\* matches.sort((a, b) => b.matchScore - a.matchScore)
SortMatches(ms) == SortFrom(<< >>, ms)

\* the end index of .slice(0, 2)
TopCount == 2

\* the truncation left out
SliceTop_All(ms) == ms

\* .slice(0, 2)
SliceTop(ms) == SubSeq(ms, 1, Min(TopCount, Len(ms)))

\* an accumulator that outlives the call: it starts as the last call left it
StaleMatches == matches

\* const matches: JobMatch[] = []
FreshMatches == << >>

\* generateJobMatches without the cap and without the sort: the uncapped
\* scores, truncated in collection order
generateJobMatches_UncappedUnsorted(sk, levels) ==
    LET pushed == ForEachSkill(FreshMatches, sk, levels, 1)
        minScoreOf(m) ==
            (CHOOSE o \in {jobRoles[m.recommendation[1]][j] : j \in 1..3} :
                o.role = m.role /\ o.company = m.company).minScore
        uncapped == [k \in 1..Len(pushed) |->
            [pushed[k] EXCEPT !.matchScore =
                MathRound(pushed[k].recommendation[2] * 100, minScoreOf(pushed[k]))]]
    IN  IF Throws(sk)
        THEN [outcome |-> "TypeError", collected |-> uncapped,
              matches |-> uncapped, result |-> << >>]
        ELSE [outcome |-> "returned", collected |-> uncapped,
              matches |-> uncapped, result |-> SliceTop(uncapped)]

\* generateJobMatches(skills, proficiencyLevels): how the call ends, the array
\* matches as the loops leave it and as the in-place sort leaves it, and the
\* value returned
generateJobMatches(sk, levels) ==
    LET pushed == ForEachSkill(FreshMatches, sk, levels, 1)
        sorted == SortMatches(pushed)
    IN  IF Throws(sk)
        THEN [outcome |-> "TypeError", collected |-> pushed,
              matches |-> pushed, result |-> << >>]
        ELSE [outcome |-> "returned", collected |-> pushed,
              matches |-> sorted, result |-> SliceTop(sorted)]

----------------------------------------------------------------------------
(* Dashboard *)

\* if (!user) return null
NoUser == "null"

\* mockMetrics of App.tsx, the metrics prop AppContent passes, and a second
\* value of the prop
mockMetrics ==
    [codingProficiency |-> 85, attendance |-> 90,
     assignmentCompletion |-> 88, overallProgress |-> 87]

MetricsProps == {mockMetrics, [mockMetrics EXCEPT !.attendance = 0]}

\* performance snapshots getStudentPerformance may return; a snapshot may
\* carry an attendance figure of its own, which Dashboard never reads
Performances ==
    { [skills |-> << >>, codingProficiency |-> 0,
       assignmentCompletion |-> 0, overallProgress |-> 0, attendance |-> 100],
      [skills |-> <<"Python">>, codingProficiency |-> 85,
       assignmentCompletion |-> 88, overallProgress |-> 87, attendance |-> 90],
      [skills |-> <<"JavaScript", "Rust">>, codingProficiency |-> 70,
       assignmentCompletion |-> 100, overallProgress |-> 64, attendance |-> 50] }

AttendanceSeqs == SeqsUpTo([present : BOOLEAN], MaxRecords)

\* Math.floor(Math.random() * 30) + 70
RandomBase == 70
RandomSpan == 30

\* a draw that can reach 100: Math.round in place of Math.floor
RandomLevels_Rounded == RandomBase .. (RandomBase + RandomSpan)

RandomLevels == RandomBase .. (RandomBase + RandomSpan - 1)

\* studentAttendance.filter(record => record.present).length
PresentCount(records) ==
    Cardinality({i \in 1..Len(records) : records[i].present})

\* rounding down where the code rounds to nearest
AttendanceShown_Floor(records) ==
    IF Len(records) > 0
    THEN (PresentCount(records) * 100) \div Len(records)
    ELSE 0

\* Math.round(attendancePercentage), where attendancePercentage is
\* length > 0 ? (present count / length) * 100 : 0
AttendanceShown(records) ==
    IF Len(records) > 0
    THEN MathRound(PresentCount(records) * 100, Len(records))
    ELSE MathRound(0, 1)

\* metrics that keep the attendance of the metrics prop
ComputeUpdatedMetrics_PropAttendance ==
    [codingProficiency |-> performance.codingProficiency,
     attendance |-> metrics.attendance,
     assignmentCompletion |-> performance.assignmentCompletion,
     overallProgress |-> performance.overallProgress]

\* const updatedMetrics = { ... }
ComputeUpdatedMetrics ==
    [codingProficiency |-> performance.codingProficiency,
     attendance |-> AttendanceShown(studentAttendance),
     assignmentCompletion |-> performance.assignmentCompletion,
     overallProgress |-> performance.overallProgress]

----------------------------------------------------------------------------
(* The calls *)

InitCalls ==
    /\ collected = << >>
    /\ matches = << >>
    /\ result = << >>
    /\ outcome = "idle"
    /\ prevResult = << >>
    /\ prevOutcome = "idle"
    /\ calls = 0

InitView ==
    /\ view = "none"
    /\ updatedMetrics = mockMetrics
    /\ skillProficiencyLevels = << >>
    /\ updatedJobMatches = << >>

\* the components that call generateJobMatches side by side
Callers == {1, 2}

\* the arguments a caller may hold: one, three and four qualifying pairs, none,
\* no skills, arrays of different lengths, and a skill that makes the call throw
CallerArgs ==
    { [skills |-> <<"Python">>, levels |-> <<80>>],
      [skills |-> <<"Python">>, levels |-> <<90>>],
      [skills |-> <<"Java", "C++">>, levels |-> <<85, 90>>],
      [skills |-> <<"Rust">>, levels |-> <<100>>],
      [skills |-> << >>, levels |-> << >>],
      [skills |-> <<"Python", "Java">>, levels |-> <<90>>],
      [skills |-> <<"JavaScript", "constructor">>, levels |-> <<85, 90>>] }

InitNoCallers ==
    /\ callerSkills = [c \in Callers |-> << >>]
    /\ callerLevels = [c \in Callers |-> << >>]
    /\ callerResult = [c \in Callers |-> << >>]
    /\ callerOutcome = [c \in Callers |-> "idle"]
    /\ callerCalls = [c \in Callers |-> 0]
    /\ soloResult = [c \in Callers |-> << >>]
    /\ soloOutcome = [c \in Callers |-> "returned"]

\* useState({ email: '', password: '', role: 'student' })
BlankUser(role) == [email |-> "", password |-> "", role |-> role]

\* AdminDashboard as first rendered
InitAdminState ==
    /\ showAddModal = FALSE
    /\ newUser = BlankUser("student")
    /\ updateUsersCalls = << >>
    /\ alertText = "none"
    /\ submits = 0

\* AppContent as first rendered, with the session still loading
InitAppState ==
    /\ loading = TRUE
    /\ userRole = "null"    \* no role while no user is signed in
    /\ activeTab = "dashboard"
    /\ selectedLanguage = "python"
    /\ showUserMenu = FALSE

Init ==
    /\ InitNoCallers
    /\ InitAppState
    /\ InitAdminState
    /\ skills \in SkillSeqs
    /\ proficiencyLevels \in LevelSeqs
    /\ InitCalls
    /\ user = NoUser
    /\ studentAttendance = << >>
    /\ performance \in {p \in Performances : p.skills = << >>}
    /\ metrics = mockMetrics
    /\ InitView

\* one call generateJobMatches(skills, proficiencyLevels)
Call ==
    /\ calls < MaxCalls
    /\ calls' = calls + 1
    /\ prevResult' = result
    /\ prevOutcome' = outcome
    /\ LET r == generateJobMatches(skills, proficiencyLevels)
       IN  /\ collected' = r.collected
           /\ matches' = r.matches
           /\ result' = r.result
           /\ outcome' = r.outcome
    /\ UNCHANGED <<skills, proficiencyLevels>>
    /\ UNCHANGED dashboardVars
    /\ UNCHANGED callerVars
    /\ UNCHANGED appVars
    /\ UNCHANGED adminVars

Next == Call

Spec == Init /\ [][Next]_vars

----------------------------------------------------------------------------
(* The renders of Dashboard *)

InitDashboard ==
    /\ InitNoCallers
    /\ InitAppState
    /\ InitAdminState
    /\ skills = << >>
    /\ proficiencyLevels = << >>
    /\ InitCalls
    /\ user \in {NoUser, "1"}
    /\ studentAttendance \in AttendanceSeqs
    /\ performance \in Performances
    /\ metrics \in MetricsProps
    /\ InitView

\* Dashboard with no user: return null
RenderNull ==
    /\ user = NoUser
    /\ view = "none"
    /\ view' = "null"
    /\ UNCHANGED <<user, studentAttendance, performance, metrics,
                   updatedMetrics, skillProficiencyLevels, updatedJobMatches>>
    /\ UNCHANGED callVars
    /\ UNCHANGED callerVars
    /\ UNCHANGED appVars
    /\ UNCHANGED adminVars

\* Dashboard with a user: the values computed by one render
Render ==
    /\ user # NoUser
    /\ view = "none"
    /\ updatedMetrics' = ComputeUpdatedMetrics
    /\ \E levels \in [1..Len(performance.skills) -> RandomLevels] :
        LET r == generateJobMatches(performance.skills, levels)
        IN  /\ skillProficiencyLevels' = levels
            \* generateJobMatches(performance.skills, skillProficiencyLevels)
            /\ skills' = performance.skills
            /\ proficiencyLevels' = levels
            /\ collected' = r.collected
            /\ matches' = r.matches
            /\ result' = r.result
            /\ outcome' = r.outcome
            /\ updatedJobMatches' = r.result
            /\ view' = IF r.outcome = "returned" THEN "dashboard" ELSE "error"
    /\ calls' = calls + 1
    /\ prevResult' = result
    /\ prevOutcome' = outcome
    /\ UNCHANGED <<user, studentAttendance, performance, metrics>>
    /\ UNCHANGED callerVars
    /\ UNCHANGED appVars
    /\ UNCHANGED adminVars

NextDashboard == RenderNull \/ Render

SpecDashboard == InitDashboard /\ [][NextDashboard]_vars

----------------------------------------------------------------------------
(* Calls by several callers *)

\* Every caller holds its own arguments.  A call is synchronous and awaits
\* nothing, so calls of different callers interleave call by call.
InitCallers ==
    /\ InitAppState
    /\ InitAdminState
    /\ skills = << >>
    /\ proficiencyLevels = << >>
    /\ InitCalls
    /\ user = NoUser
    /\ studentAttendance = << >>
    /\ performance \in {p \in Performances : p.skills = << >>}
    /\ metrics = mockMetrics
    /\ InitView
    /\ \E args \in [Callers -> CallerArgs] :
        /\ callerSkills = [c \in Callers |-> args[c].skills]
        /\ callerLevels = [c \in Callers |-> args[c].levels]
        /\ soloResult = [c \in Callers |->
                generateJobMatches(args[c].skills, args[c].levels).result]
        /\ soloOutcome = [c \in Callers |->
                generateJobMatches(args[c].skills, args[c].levels).outcome]
    /\ callerResult = [c \in Callers |-> << >>]
    /\ callerOutcome = [c \in Callers |-> "idle"]
    /\ callerCalls = [c \in Callers |-> 0]

\* caller c calls generateJobMatches with the arrays it holds
CallBy(c) ==
    /\ callerCalls[c] < MaxCalls
    /\ LET r == generateJobMatches(callerSkills[c], callerLevels[c])
       IN  /\ skills' = callerSkills[c]
           /\ proficiencyLevels' = callerLevels[c]
           /\ collected' = r.collected
           /\ matches' = r.matches
           /\ result' = r.result
           /\ outcome' = r.outcome
           /\ callerResult' = [callerResult EXCEPT ![c] = r.result]
           /\ callerOutcome' = [callerOutcome EXCEPT ![c] = r.outcome]
    /\ calls' = calls + 1
    /\ prevResult' = result
    /\ prevOutcome' = outcome
    /\ callerCalls' = [callerCalls EXCEPT ![c] = @ + 1]
    /\ UNCHANGED <<callerSkills, callerLevels, soloResult, soloOutcome>>
    /\ UNCHANGED dashboardVars
    /\ UNCHANGED appVars
    /\ UNCHANGED adminVars

NextCallers == \E c \in Callers : CallBy(c)

SpecCallers == InitCallers /\ [][NextCallers]_vars

----------------------------------------------------------------------------
(* AppContent (App.tsx) *)

NoRole == "null"

Roles == {"student", "faculty", "admin"}

Languages == {"python", "javascript", "java", "cpp"}

\* the ids of getNavigationItems(), in order
getNavigationItems(role) ==
    IF role = "student" THEN <<"editor", "courses", "assessments", "dashboard">>
    ELSE IF role = "faculty" THEN <<"courses", "assessments", "attendance">>
    ELSE IF role = "admin" THEN <<"dashboard">>
    ELSE << >>

NavigationIds(role) ==
    {getNavigationItems(role)[i] : i \in 1..Len(getNavigationItems(role))}

\* what AppContent returns: the loading screen, <Auth />, or the page with
\* its navigation bar and <main>
Screen ==
    IF loading THEN "Loading"
    ELSE IF user = NoUser THEN "Auth"
    ELSE "Page"

\* the components rendered inside <main>, lines 164-189
MainViews ==
    IF Screen # "Page" THEN {}
    ELSE
        (IF activeTab = "editor" /\ userRole = "student" THEN {"CodeEditor"} ELSE {})
        \cup (IF activeTab = "courses" THEN {"CourseList"} ELSE {})
        \cup (IF activeTab = "assessments" THEN {"AssessmentList"} ELSE {})
        \cup (IF activeTab = "dashboard" /\ userRole = "student" THEN {"Dashboard"} ELSE {})
        \cup (IF activeTab = "dashboard" /\ userRole = "admin" THEN {"AdminDashboard"} ELSE {})
        \cup (IF activeTab = "attendance" /\ userRole = "faculty"
              THEN {"AttendanceManager"} ELSE {})

\* the tab each component of <main> is rendered for
TabOf(component) ==
    CASE component = "CodeEditor" -> "editor"
      [] component = "CourseList" -> "courses"
      [] component = "AssessmentList" -> "assessments"
      [] component = "Dashboard" -> "dashboard"
      [] component = "AdminDashboard" -> "dashboard"
      [] component = "AttendanceManager" -> "attendance"

InitApp ==
    /\ InitNoCallers
    /\ InitAppState
    /\ InitAdminState
    /\ skills = << >>
    /\ proficiencyLevels = << >>
    /\ InitCalls
    /\ user = NoUser
    /\ studentAttendance = << >>
    /\ performance \in {p \in Performances : p.skills = << >>}
    /\ metrics = mockMetrics
    /\ InitView

AppFrame ==
    /\ UNCHANGED adminVars
    /\ UNCHANGED callVars
    /\ UNCHANGED callerVars
    /\ UNCHANGED <<studentAttendance, performance, metrics, view,
                   updatedMetrics, skillProficiencyLevels, updatedJobMatches>>

\* the auth context ends loading, with no session or with a restored one
AuthResolved ==
    /\ loading
    /\ loading' = FALSE
    /\ \/ user' = NoUser /\ userRole' = NoRole
       \/ user' = "1" /\ userRole' \in Roles
    /\ UNCHANGED <<activeTab, selectedLanguage, showUserMenu>>
    /\ AppFrame

\* <Auth /> signs a user in; AppContent stays mounted and keeps its state
SignIn ==
    /\ Screen = "Auth"
    /\ user' = "1"
    /\ userRole' \in Roles
    /\ UNCHANGED <<loading, activeTab, selectedLanguage, showUserMenu>>
    /\ AppFrame

\* handleLogout: await signOut(), from the button of the open user menu
handleLogout ==
    /\ Screen = "Page"
    /\ showUserMenu
    /\ user' = NoUser
    /\ userRole' = NoRole
    /\ UNCHANGED <<loading, activeTab, selectedLanguage, showUserMenu>>
    /\ AppFrame

\* NavButton onClick={() => setActiveTab(item.id)}, for an item of getNavigationItems()
ClickNavButton ==
    /\ Screen = "Page"
    /\ \E id \in NavigationIds(userRole) : activeTab' = id
    /\ UNCHANGED <<user, loading, userRole, selectedLanguage, showUserMenu>>
    /\ AppFrame

\* the language <select>, shown on the editor tab of a student
SelectLanguage ==
    /\ Screen = "Page"
    /\ activeTab = "editor"
    /\ userRole = "student"
    /\ selectedLanguage' \in Languages
    /\ UNCHANGED <<user, loading, userRole, activeTab, showUserMenu>>
    /\ AppFrame

\* onClick={() => setShowUserMenu(!showUserMenu)}
ToggleUserMenu ==
    /\ Screen = "Page"
    /\ showUserMenu' = ~showUserMenu
    /\ UNCHANGED <<user, loading, userRole, activeTab, selectedLanguage>>
    /\ AppFrame

NextApp ==
    \/ AuthResolved
    \/ SignIn
    \/ handleLogout
    \/ ClickNavButton
    \/ SelectLanguage
    \/ ToggleUserMenu

SpecApp == InitApp /\ [][NextApp]_vars

----------------------------------------------------------------------------
(* AdminDashboard *)

\* what can be typed into the two inputs of the modal
Emails == {"", "ada@campus.edu"}

Passwords == {"", "secret"}

AdminFrame ==
    /\ UNCHANGED callVars
    /\ UNCHANGED callerVars
    /\ UNCHANGED dashboardVars
    /\ UNCHANGED appVars

\* the Add Student and Add Faculty buttons: a blank form of that role, modal open
OpenAddModal ==
    /\ \E role \in {"student", "faculty"} : newUser' = BlankUser(role)
    /\ showAddModal' = TRUE
    /\ UNCHANGED <<updateUsersCalls, alertText, submits>>
    /\ AdminFrame

\* the X and Cancel buttons of the modal
CloseAddModal ==
    /\ showAddModal
    /\ showAddModal' = FALSE
    /\ UNCHANGED <<newUser, updateUsersCalls, alertText, submits>>
    /\ AdminFrame

\* onChange of the email input
EditEmail ==
    /\ showAddModal
    /\ \E email \in Emails : newUser' = [newUser EXCEPT !.email = email]
    /\ UNCHANGED <<showAddModal, updateUsersCalls, alertText, submits>>
    /\ AdminFrame

\* onChange of the password input
EditPassword ==
    /\ showAddModal
    /\ \E password \in Passwords : newUser' = [newUser EXCEPT !.password = password]
    /\ UNCHANGED <<showAddModal, updateUsersCalls, alertText, submits>>
    /\ AdminFrame

\* the call updateUsers(email, password, role), which returns or throws
UpdateUsersCall(threw) ==
    [email |-> newUser.email, password |-> newUser.password,
     role |-> newUser.role, threw |-> threw]

\* handleAddUser closing the modal before it calls updateUsers
handleAddUser_ClosesFirst ==
    /\ showAddModal
    /\ submits < MaxSubmits
    /\ submits' = submits + 1
    /\ \/ /\ newUser.email = "" \/ newUser.password = ""
          /\ alertText' = "Please fill in all fields"
          /\ UNCHANGED <<showAddModal, newUser, updateUsersCalls>>
       \/ /\ newUser.email # "" /\ newUser.password # ""
          /\ updateUsersCalls' = Append(updateUsersCalls, UpdateUsersCall(FALSE))
          /\ showAddModal' = FALSE
          /\ newUser' = BlankUser("student")
          /\ UNCHANGED alertText
       \/ /\ newUser.email # "" /\ newUser.password # ""
          /\ updateUsersCalls' = Append(updateUsersCalls, UpdateUsersCall(TRUE))
          /\ showAddModal' = FALSE
          /\ alertText' = "Failed to add user"
          /\ UNCHANGED newUser
    /\ AdminFrame

\* handleAddUser, the add button of the modal
handleAddUser ==
    /\ showAddModal
    /\ submits < MaxSubmits
    /\ submits' = submits + 1
    /\ \/ \* if (!newUser.email || !newUser.password) { alert(...); return; }
          /\ newUser.email = "" \/ newUser.password = ""
          /\ alertText' = "Please fill in all fields"
          /\ UNCHANGED <<showAddModal, newUser, updateUsersCalls>>
       \/ \* updateUsers returns
          /\ newUser.email # "" /\ newUser.password # ""
          /\ updateUsersCalls' = Append(updateUsersCalls, UpdateUsersCall(FALSE))
          /\ showAddModal' = FALSE
          /\ newUser' = BlankUser("student")
          /\ UNCHANGED alertText
       \/ \* updateUsers throws: catch (error) { alert(...) }
          /\ newUser.email # "" /\ newUser.password # ""
          /\ updateUsersCalls' = Append(updateUsersCalls, UpdateUsersCall(TRUE))
          /\ alertText' = "Failed to add user"
          /\ UNCHANGED <<showAddModal, newUser>>
    /\ AdminFrame

InitAdmin ==
    /\ InitNoCallers
    /\ InitAppState
    /\ InitAdminState
    /\ skills = << >>
    /\ proficiencyLevels = << >>
    /\ InitCalls
    /\ user = NoUser
    /\ studentAttendance = << >>
    /\ performance \in {p \in Performances : p.skills = << >>}
    /\ metrics = mockMetrics
    /\ InitView

NextAdmin ==
    \/ OpenAddModal
    \/ CloseAddModal
    \/ EditEmail
    \/ EditPassword
    \/ handleAddUser

SpecAdmin == InitAdmin /\ [][NextAdmin]_vars

----------------------------------------------------------------------------
(* Properties of generateJobMatches *)

\* skills and proficiencyLevels are positionally aligned
ValidInput == Len(skills) = Len(proficiencyLevels)

\* the (index, catalog position) pairs the arguments offer
Pairs ==
    {p \in (1..Len(skills)) \X (1..3) :
        /\ skills[p[1]] \in DOMAIN jobRoles
        /\ p[2] <= Len(jobRoles[skills[p[1]]])}

OptionOf(p) == jobRoles[skills[p[1]]][p[2]]

\* proficiencyLevels[i] is defined and reaches the entry's minScore
Meets(p) ==
    /\ p[1] <= Len(proficiencyLevels)
    /\ proficiencyLevels[p[1]] >= OptionOf(p).minScore

\* match m is the entry made for skills[i] and its catalog entry j
DerivedFrom(m, p) ==
    /\ p[1] <= Len(proficiencyLevels)
    /\ m.role = OptionOf(p).role
    /\ m.company = OptionOf(p).company
    /\ m.recommendation = <<skills[p[1]], proficiencyLevels[p[1]]>>

\* C1: on aligned inputs with proficiencies in 0..100, every returned entry
\* has a matchScore between 0 and 98.
C1_CapInvariant ==
    (outcome = "returned" /\ ValidInput) =>
        \A k \in 1..Len(result) : result[k].matchScore \in 0..98

\* a returned entry made for proficiency 100: its ratio is above 110, capped to 98
C1_Witness ==
    /\ outcome = "returned"
    /\ ValidInput
    /\ \E k \in 1..Len(result) :
        /\ result[k].recommendation[2] = 100
        /\ result[k].matchScore = 98

\* C2: on aligned inputs at most 2 entries are returned, however many pairs
\* qualify.
C2_Cardinality ==
    (outcome = "returned" /\ ValidInput) => Len(result) <= 2

\* more than two pairs qualified and two entries came back
C2_Witness ==
    /\ outcome = "returned"
    /\ ValidInput
    /\ Len(collected) > 2
    /\ Len(result) = 2

\* C3: a returned entry is the entry of some skills[i] whose proficiency
\* reaches the entry's minScore; a pair below its minScore never appears in
\* the result; a proficiency equal to minScore qualifies (is collected).
C3_ThresholdGate ==
    outcome = "returned" =>
        /\ \A k \in 1..Len(result) :
            \E p \in Pairs : DerivedFrom(result[k], p) /\ Meets(p)
        /\ \A p \in Pairs :
            ~Meets(p) => \A k \in 1..Len(result) : ~DerivedFrom(result[k], p)
        /\ \A p \in Pairs :
            (p[1] <= Len(proficiencyLevels)
                /\ proficiencyLevels[p[1]] = OptionOf(p).minScore)
            => \E k \in 1..Len(collected) : DerivedFrom(collected[k], p)

\* an entry at exactly its threshold was returned while another entry of the
\* same call stayed below its threshold
C3_Witness ==
    /\ outcome = "returned"
    /\ \E p \in Pairs :
        /\ p[1] <= Len(proficiencyLevels)
        /\ proficiencyLevels[p[1]] = OptionOf(p).minScore
        /\ \E k \in 1..Len(result) : DerivedFrom(result[k], p)
    /\ \E q \in Pairs : q[1] <= Len(proficiencyLevels) /\ ~Meets(q)

\* C4: when skills and proficiencyLevels differ in length the call fails with
\* InvalidArgument and returns nothing.
C4_LengthMismatchFails ==
    (calls > 0 /\ ~ValidInput) =>
        (outcome = "InvalidArgument" /\ result = << >>)

\* C5: the returned sequence is sorted by matchScore, non-increasing.
C5_Monotonic ==
    outcome = "returned" =>
        \A k \in 1..(Len(result) - 1) :
            result[k].matchScore >= result[k + 1].matchScore

\* two entries made for different skills were returned
C5_Witness ==
    /\ outcome = "returned"
    /\ Len(result) = 2
    /\ result[1].recommendation[1] # result[2].recommendation[1]

\* no pair of the arguments passes the gate
NoPairQualifies == \A p \in Pairs : ~Meets(p)

\* C6: when no (skill, catalog entry) pair of aligned arguments qualifies
\* (no skills, skills that are no catalog keys, proficiencies below every
\* minScore), the call returns the empty sequence and raises no error.
C6_EmptyWithoutError ==
    (calls > 0 /\ ValidInput /\ NoPairQualifies) =>
        (outcome = "returned" /\ result = << >>)

HasEntry(ms, role, company) ==
    \E k \in 1..Len(ms) : ms[k].role = role /\ ms[k].company = company

ScenarioA ==
    /\ calls > 0
    /\ skills = <<"Python">>
    /\ proficiencyLevels = <<90>>

\* C7 as stated: for (["Python"], [90]) all three Python entries qualify with
\* matchScore 98, exactly 2 are returned, and the result includes Backend
\* Developer / TechStack Inc and Data Scientist / DataCorp Analytics.
C7_Original ==
    ScenarioA =>
        /\ Len(collected) = 3
        /\ \A k \in 1..3 : collected[k].matchScore = 98
        /\ Len(result) = 2
        /\ HasEntry(result, "Backend Developer", "TechStack Inc")
        /\ HasEntry(result, "Data Scientist", "DataCorp Analytics")

\* C7 amended: for (["Python"], [90]) all three Python entries qualify with
\* matchScore 98, and the result is exactly the first two in catalog order,
\* Data Scientist / DataCorp Analytics then Machine Learning Engineer /
\* AI Solutions Ltd; Backend Developer / TechStack Inc is not returned.
C7_Amended ==
    ScenarioA =>
        /\ outcome = "returned"
        /\ Len(collected) = 3
        /\ \A k \in 1..3 : collected[k].matchScore = 98
        /\ Len(result) = 2
        /\ result[1].role = "Data Scientist"
        /\ result[1].company = "DataCorp Analytics"
        /\ result[2].role = "Machine Learning Engineer"
        /\ result[2].company = "AI Solutions Ltd"
        /\ ~HasEntry(result, "Backend Developer", "TechStack Inc")

\* the call of scenario A has returned
C7_Witness == ScenarioA /\ outcome = "returned" /\ Len(result) = 2

RanksBefore(a, b) ==
    \/ collected[a].matchScore > collected[b].matchScore
    \/ (collected[a].matchScore = collected[b].matchScore /\ a < b)

\* C10: the returned entries are the collected entries that rank first, with
\* ties kept in collection order (order of skills, then catalog order).
C10_StableTopTwo ==
    outcome = "returned" =>
        \E idx \in [1..Len(result) -> 1..Len(collected)] :
            /\ \A k \in 1..Len(result) : result[k] = collected[idx[k]]
            /\ \A k, l \in 1..Len(result) : k < l => RanksBefore(idx[k], idx[l])
            /\ \A u \in 1..Len(collected) :
                (\A k \in 1..Len(result) : idx[k] # u)
                => \A k \in 1..Len(result) : RanksBefore(idx[k], u)

\* entries of two skills tie on matchScore and one of the later skill is cut
C10_Witness ==
    /\ outcome = "returned"
    /\ Len(collected) > 2
    /\ collected[1].matchScore = collected[Len(collected)].matchScore
    /\ collected[1].recommendation[1] # collected[Len(collected)].recommendation[1]
    /\ collected[Len(collected)] # result[1]
    /\ collected[Len(collected)] # result[2]

\* C11: every returned entry is made from one index i and one catalog entry e
\* of skills[i]: it has e's role and company, and its matchScore is
\* min(round(proficiencyLevels[i] / e.minScore * 100), 98), where round(x) is
\* the integer n with n - 1/2 <= x < n + 1/2; that n is the integer part of x
\* or the next integer, so those two are the candidates.
C11_EntryDerivation ==
    outcome = "returned" =>
        \A k \in 1..Len(result) :
            \E p \in Pairs :
                /\ DerivedFrom(result[k], p)
                /\ \E raw \in {(100 * proficiencyLevels[p[1]]) \div OptionOf(p).minScore,
                                ((100 * proficiencyLevels[p[1]]) \div OptionOf(p).minScore) + 1} :
                    /\ (2 * raw - 1) * OptionOf(p).minScore
                            <= 200 * proficiencyLevels[p[1]]
                    /\ 200 * proficiencyLevels[p[1]]
                            < (2 * raw + 1) * OptionOf(p).minScore
                    /\ result[k].matchScore = IF raw < 98 THEN raw ELSE 98

\* an entry made for proficiency 88 and a minScore of 85 was returned: the
\* ratio 103.53 rounds to 104 and is capped
C11_Witness ==
    /\ outcome = "returned"
    /\ \E k \in 1..Len(result), p \in Pairs :
        /\ DerivedFrom(result[k], p)
        /\ proficiencyLevels[p[1]] = 88
        /\ OptionOf(p).minScore = 85
        /\ result[k].matchScore = 98

\* C14: for integer proficiencies every returned entry has matchScore exactly
\* 98, the sort leaves the collected entries in collection order, and the
\* result is the first min(2, n) of the n qualifying entries in that order.
C14_AllScoresAtCap ==
    outcome = "returned" =>
        /\ \A k \in 1..Len(result) : result[k].matchScore = 98
        /\ matches = collected
        /\ Len(collected) = Cardinality({p \in Pairs : Meets(p)})
        /\ Len(result) = IF Len(collected) < 2 THEN Len(collected) ELSE 2
        /\ \A k \in 1..Len(result) : result[k] = collected[k]

\* four or more pairs of two skills qualified and the first two were returned
C14_Witness ==
    /\ outcome = "returned"
    /\ Len(collected) >= 4
    /\ Len(result) = 2
    /\ result[1] = collected[1]
    /\ result[2] = collected[2]
    /\ collected[1].recommendation[1] # collected[4].recommendation[1]

----------------------------------------------------------------------------
(* Properties of Dashboard *)

Abs(x) == IF x < 0 THEN 0 - x ELSE x

\* C8: the attendance shown is 0 for no records and otherwise the integer
\* nearest to present / total * 100 (within one half of it), always in
\* 0..100; present, absent, present, present gives 75.
C8_AttendancePercentage ==
    view = "dashboard" =>
        LET n == Len(studentAttendance)
            c == PresentCount(studentAttendance)
            a == updatedMetrics.attendance
        IN  /\ a \in 0..100
            /\ n = 0 => a = 0
            /\ n > 0 => 2 * Abs(a * n - 100 * c) <= n
            /\ studentAttendance = <<[present |-> TRUE], [present |-> FALSE],
                                     [present |-> TRUE], [present |-> TRUE]>>
               => a = 75

\* a render over three records, two of them present: 66.67 is shown as 67
C8_Witness ==
    /\ view = "dashboard"
    /\ Len(studentAttendance) = 3
    /\ PresentCount(studentAttendance) = 2
    /\ updatedMetrics.attendance = 67

\* C12: the metrics shown take codingProficiency, assignmentCompletion and
\* overallProgress from the performance snapshot, and an attendance fixed by
\* the attendance records alone (0 for none, else the integer within one half
\* of present / total * 100), whatever attendance the metrics prop or the
\* snapshot carries.
C12_DisplayMetrics ==
    view = "dashboard" =>
        LET n == Len(studentAttendance)
            c == PresentCount(studentAttendance)
        IN  /\ updatedMetrics.codingProficiency = performance.codingProficiency
            /\ updatedMetrics.assignmentCompletion = performance.assignmentCompletion
            /\ updatedMetrics.overallProgress = performance.overallProgress
            /\ n = 0 => updatedMetrics.attendance = 0
            /\ n > 0 => 2 * Abs(updatedMetrics.attendance * n - 100 * c) <= n
            /\ DOMAIN updatedMetrics = {"codingProficiency", "attendance",
                                        "assignmentCompletion", "overallProgress"}

\* a render whose records give 50 while the metrics prop says 90 and the
\* snapshot says 90
C12_Witness ==
    /\ view = "dashboard"
    /\ Len(studentAttendance) = 4
    /\ updatedMetrics.attendance = 50
    /\ metrics.attendance = 90
    /\ performance.attendance = 90
    /\ updatedMetrics.codingProficiency = 85

----------------------------------------------------------------------------
(* Properties of AppContent *)

\* C15: whatever clicks, logouts and logins came before, every component
\* rendered in <main> belongs to a tab among getNavigationItems() of the
\* current role; CourseList and AssessmentList are never rendered for an
\* admin, and CodeEditor, AttendanceManager and AdminDashboard only for
\* student, faculty and admin.
C15_MainViewWithinNavigation ==
    /\ \A component \in MainViews : TabOf(component) \in NavigationIds(userRole)
    /\ userRole = "admin" =>
        ("CourseList" \notin MainViews /\ "AssessmentList" \notin MainViews)
    /\ "CodeEditor" \in MainViews => userRole = "student"
    /\ "AttendanceManager" \in MainViews => userRole = "faculty"
    /\ "AdminDashboard" \in MainViews => userRole = "admin"

----------------------------------------------------------------------------
(* Properties of AdminDashboard *)

\* C16: in a run of handleAddUser, updateUsers is not called when email or
\* password is empty; when it is called, it is called with the email, password
\* and role entered; the modal is closed and the form reset to
\* {email: '', password: '', role: 'student'} exactly when updateUsers was
\* called and returned; otherwise the modal stays open and newUser is unchanged.
C16_AddUser ==
    [][ submits' # submits =>
          LET called == updateUsersCalls' # updateUsersCalls
              last == updateUsersCalls'[Len(updateUsersCalls')]
              returned == called /\ ~last.threw
          IN  /\ (newUser.email = "" \/ newUser.password = "") => ~called
              /\ called =>
                    /\ updateUsersCalls' = Append(updateUsersCalls, last)
                    /\ last.email = newUser.email
                    /\ last.password = newUser.password
                    /\ last.role = newUser.role
              /\ returned =>
                    /\ showAddModal' = FALSE
                    /\ newUser' = [email |-> "", password |-> "", role |-> "student"]
              /\ ~returned =>
                    /\ showAddModal' = TRUE
                    /\ newUser' = newUser ]_vars

\* the form of a faculty user was submitted twice: updateUsers threw the first
\* time, leaving the modal open, and returned the second time
C16_Witness ==
    /\ submits = 2
    /\ Len(updateUsersCalls) = 2
    /\ updateUsersCalls[1].threw
    /\ ~updateUsersCalls[2].threw
    /\ updateUsersCalls[2].role = "faculty"
    /\ updateUsersCalls[2].email = "ada@campus.edu"
    /\ ~showAddModal
    /\ newUser = [email |-> "", password |-> "", role |-> "student"]

====
